---- MODULE Spec2Model ----
(***************************************************************************)
(* Model of clients/python/cash_register.py: one invocation of the command *)
(* line client.  The state is what one run of main() can observe or change *)
(* : the parsed arguments, the input file, the HTTP exchanges with the     *)
(* server, the output directory and file, stdout, stderr and the exit      *)
(* status.  A text is a sequence of tokens (a token is a literal phrase or *)
(* a single character); NL is the newline character.                       *)
(***************************************************************************)
EXTENDS Integers, Sequences, FiniteSets, TLC

\* ---------------------------------------------------------------- bounds
MaxResults == 2
MaxLineLen == 1

\* ---------------------------------------------------------------- text helpers
NL == "\n"

Digit(d) == CASE d = 0 -> "0" [] d = 1 -> "1" [] d = 2 -> "2" [] d = 3 -> "3"
              [] d = 4 -> "4" [] d = 5 -> "5" [] d = 6 -> "6" [] d = 7 -> "7"
              [] d = 8 -> "8" [] d = 9 -> "9"

RECURSIVE NatToStr(_)
NatToStr(n) == IF n < 10 THEN <<Digit(n)>>
               ELSE NatToStr(n \div 10) \o <<Digit(n % 10)>>

\* str(n) of a Python int, as the f-strings of main() format it
IntToStr(n) == IF n < 0 THEN <<"-">> \o NatToStr(0 - n) ELSE NatToStr(n)

RECURSIVE JoinLines(_)
\* "\n".join(lines)
JoinLines(lines) ==
    IF lines = <<>> THEN <<>>
    ELSE IF Len(lines) = 1 THEN lines[1]
    ELSE lines[1] \o <<NL>> \o JoinLines(Tail(lines))

\* variant: the final newline is forgotten
FileText_NoFinalNewline(lines) == JoinLines(lines)

\* "\n".join(lines) + "\n", the text main() writes to the output file
FileText(lines) == JoinLines(lines) \o <<NL>>

\* ---------------------------------------------------------------- optional values
\* A Python value that may be None, or a JSON field that may be absent, is a
\* set with at most one element.
None == {}
Some(v) == {v}
Val(o) == CHOOSE v \in o : TRUE

\* ---------------------------------------------------------------- inputs
DEFAULT_OUTPUT_DIR == "../../output/clients/python"

InputFiles == { [dir |-> "data", stem |-> <<"sample-usd">>, suffix |-> <<".txt">>],
                [dir |-> "data", stem |-> <<"eur">>,        suffix |-> <<".txt">>] }

InputText == <<"2.12,3.00", NL, "1.97,2.00", NL>>

\* what the file system holds at args.input_file
InputStates == { [isfile |-> FALSE, readable |-> FALSE, content |-> <<>>],
                 [isfile |-> TRUE,  readable |-> FALSE, content |-> <<>>],
                 [isfile |-> TRUE,  readable |-> TRUE,  content |-> InputText] }

DivisorArgs == { None, Some(0), Some(0 - 2), Some(5) }

CustomPath == [dir |-> "results", name |-> <<"out.txt">>]
EmptyPath  == [dir |-> "", name |-> <<>>]
OutputArgs == { None, Some(EmptyPath), Some(CustomPath) }

ArgsSet == [ input_file : InputFiles, divisor : DivisorArgs,
             no_pennies : BOOLEAN, half_dollars : BOOLEAN, output : OutputArgs ]

\* ---------------------------------------------------------------- server

Alphabet == { "a", "b" }
BoundedSeq(S, n) == UNION { [1..k -> S] : k \in 0..n }
ResultLines == BoundedSeq(Alphabet, MaxLineLen)
ResultLists == BoundedSeq(ResultLines, MaxResults)

ErrorTexts == { "Invalid amount" }

NoFields == [ error |-> None, currency |-> None, divisor |-> None,
              hasRandomization |-> None, results |-> None ]

\* bodies of a 200 answer: a JSON object with any subset of the result fields,
\* a JSON value that is not an object, or text that is not JSON
OkObjects == { [kind |-> "object", f |-> [NoFields EXCEPT !.currency = c, !.divisor = d,
                                            !.hasRandomization = h, !.results = r]] :
                  c \in { None, Some("USD") }, d \in { None, Some(3), Some(12) },
                  h \in { None, Some(TRUE), Some(FALSE) },
                  r \in { None } \cup { Some(l) : l \in ResultLists } }

\* bodies of a non-200 answer: an error object with or without `error`
ErrObjects == { [kind |-> "object", f |-> [NoFields EXCEPT !.error = e]] :
                  e \in { None } \cup { Some(t) : t \in ErrorTexts } }

OtherBodies == { [kind |-> "array", f |-> NoFields], [kind |-> "not_json", f |-> NoFields] }

\* requests.get / requests.post raising a RequestException (no answer)
NoAnswer == [raised |-> TRUE, status |-> "", body |-> [kind |-> "not_json", f |-> NoFields]]

HealthOutcomes ==
    { NoAnswer }
    \cup { [raised |-> FALSE, status |-> s, body |-> [kind |-> "not_json", f |-> NoFields]] :
              s \in { "200", "503" } }

PostOutcomes ==
    { NoAnswer }
    \cup { [raised |-> FALSE, status |-> "200", body |-> b] : b \in OkObjects \cup OtherBodies }
    \cup { [raised |-> FALSE, status |-> s, body |-> b] :
              s \in { "400", "500" }, b \in ErrObjects \cup OtherBodies }

\* ---------------------------------------------------------------- state
VARIABLES
    pc,         \* position in main()
    args,       \* argparse namespace
    infile,     \* the file system at args.input_file
    fs0,        \* output directories and files before the invocation
    fs,         \* output directories and files now
    http,       \* requests sent, in order
    steps,      \* the steps taken so far, in order, each with how it ended
    result,     \* value returned by process_file: None or Some(body)
    output_path,\* None or Some(path)
    lines,      \* None or Some(list of lines) built for the file
    stdout,     \* lines printed to standard output
    stderr,     \* messages printed to standard error
    exitCode    \* None while running, Some(code) after exit

vars == << pc, args, infile, fs0, fs, http, steps, result, output_path, lines,
           stdout, stderr, exitCode >>

EmptyFs == [ dirs |-> {}, files |-> {} ]
OldText == <<"old", NL>>
DefaultPathOf(a) == [ dir |-> DEFAULT_OUTPUT_DIR,
                      name |-> a.input_file.stem \o <<"-output.txt">> ]
\* the file system before the run: nothing there, or both candidate output
\* files already present with earlier contents
InitialFs(a) == { EmptyFs,
                  [ dirs |-> { DEFAULT_OUTPUT_DIR, CustomPath.dir },
                    files |-> { [path |-> DefaultPathOf(a), text |-> OldText],
                                [path |-> CustomPath, text |-> OldText] } ] }

Init ==
    /\ args \in ArgsSet
    /\ infile \in InputStates
    /\ fs0 \in InitialFs(args)
    /\ fs = fs0
    /\ pc = "check_input"
    /\ http = <<>>
    /\ steps = <<>>
    /\ result = None
    /\ output_path = None
    /\ lines = None
    /\ stdout = <<>>
    /\ stderr = <<>>
    /\ exitCode = None


\* ---------------------------------------------------------------- helpers of main()
PathText(p) == <<p.dir, "/">> \o p.name
InputPathText(a) == <<a.input_file.dir, "/">> \o a.input_file.stem \o a.input_file.suffix

\* print(..., file=sys.stderr) of a handled error
ErrorMessage(text) == <<"Error: ">> \o text
\* what the interpreter prints for an exception nobody caught
Traceback(text) == <<"Traceback (most recent call last):">> \o text

Exited(code) == /\ pc' = "done"
                /\ exitCode' = Some(code)

\* ---------------------------------------------------------------- lines 97-100
\* variant: sys.exit() without a status, which exits with code 0
CheckInputFile_ExitZero ==
    /\ pc = "check_input"
    /\ IF ~infile.isfile
       THEN /\ stderr' = Append(stderr,
                   ErrorMessage(<<"Input file not found: ">> \o InputPathText(args)))
            /\ Exited(0)
       ELSE /\ pc' = "check_api"
            /\ UNCHANGED << stderr, exitCode >>
    /\ UNCHANGED << args, infile, fs0, fs, http, steps, result, output_path, lines, stdout >>

CheckInputFile ==
    /\ pc = "check_input"
    /\ IF ~infile.isfile
       THEN /\ stderr' = Append(stderr,
                   ErrorMessage(<<"Input file not found: ">> \o InputPathText(args)))
            /\ Exited(1)
       ELSE /\ pc' = "check_api"
            /\ UNCHANGED << stderr, exitCode >>
    /\ UNCHANGED << args, infile, fs0, fs, http, steps, result, output_path, lines, stdout >>

\* ---------------------------------------------------------------- check_api
\* variant: any answer of the server counts as available
check_api_AnyStatus(outcome) == ~outcome.raised
\* variant: the result of the health check is ignored
check_api_Always(outcome) == TRUE

\* True only for an answer with status 200; a RequestException gives False
check_api(outcome) == ~outcome.raised /\ outcome.status = "200"

\* ---------------------------------------------------------------- lines 102-109
CheckApi ==
    /\ pc = "check_api"
    /\ \E o \in HealthOutcomes :
        /\ http' = Append(http, [method |-> "GET", path |-> "/health",
                                 params |-> {}, body |-> <<>>, response |-> o])
        /\ steps' = Append(steps, [name |-> "GET", ok |-> check_api(o)])
        /\ IF ~check_api(o)
           THEN /\ stderr' = Append(stderr,
                       ErrorMessage(<<"API server not available at ", "api",
                                      ". Start it with: cd api && npm start">>))
                /\ Exited(1)
           ELSE /\ pc' = "process"
                /\ UNCHANGED << stderr, exitCode >>
    /\ UNCHANGED << args, infile, fs0, fs, result, output_path, lines, stdout >>

\* ---------------------------------------------------------------- process_file
\* variant: `if options.get("divisor"):`, which drops a divisor of 0
BuildParams_TruthyDivisor(a) ==
    (IF a.divisor # None /\ a.divisor # Some(0)
     THEN { <<"divisor", IntToStr(Val(a.divisor))>> } ELSE {})
    \cup (IF a.no_pennies THEN { <<"noPennies", <<"true">>>> } ELSE {})
    \cup (IF a.half_dollars THEN { <<"halfDollars", <<"true">>>> } ELSE {})

\* lines 111-116 and 37-44: the query parameters, a set of <<name, value>>
BuildParams(a) ==
    (IF a.divisor # None THEN { <<"divisor", IntToStr(Val(a.divisor))>> } ELSE {})
    \cup (IF a.no_pennies THEN { <<"noPennies", <<"true">>>> } ELSE {})
    \cup (IF a.half_dollars THEN { <<"halfDollars", <<"true">>>> } ELSE {})

\* variant: the status of the answer is never looked at
IsApiFailure_Never(status) == FALSE

\* line 54: which answers are failures
IsApiFailure(status) == status # "200"

\* lines 46-58: what process_file does with the outcome of requests.post:
\* raises (with the text of the exception) or returns the parsed body
ProcessResponse(o) ==
    IF o.raised
    THEN [raises |-> TRUE, text |-> <<"ConnectionError">>]
    ELSE IF o.body.kind = "not_json"
    THEN [raises |-> TRUE, text |-> <<"Expecting value: line 1 column 1 (char 0)">>]
    ELSE IF IsApiFailure(o.status)
    THEN IF o.body.kind # "object"
         THEN [raises |-> TRUE, text |-> <<"'list' object has no attribute 'get'">>]
         ELSE [raises |-> TRUE,
               text |-> <<"API error: ",
                          IF o.body.f.error # None THEN Val(o.body.f.error)
                                                   ELSE "Unknown error">>]
    ELSE [raises |-> FALSE, text |-> <<>>]

\* ---------------------------------------------------------------- lines 111-123
ProcessFile ==
    /\ pc = "process"
    /\ IF ~infile.readable
       THEN \* open() raises before any request is made
            /\ stderr' = Append(stderr, ErrorMessage(<<"[Errno 13] Permission denied">>))
            /\ Exited(1)
            /\ UNCHANGED << http, steps, result >>
       ELSE \E o \in PostOutcomes :
            /\ http' = Append(http, [method |-> "POST", path |-> "/process",
                                     params |-> BuildParams(args),
                                     body |-> infile.content, response |-> o])
            /\ steps' = Append(steps, [name |-> "POST", ok |-> ~ProcessResponse(o).raises])
            /\ IF ProcessResponse(o).raises
               THEN /\ stderr' = Append(stderr, ErrorMessage(ProcessResponse(o).text))
                    /\ Exited(1)
                    /\ UNCHANGED result
               ELSE /\ result' = Some(o.body)
                    /\ pc' = "resolve_output"
                    /\ UNCHANGED << stderr, exitCode >>
    /\ UNCHANGED << args, infile, fs0, fs, output_path, lines, stdout >>

\* ---------------------------------------------------------------- lines 125-134
\* variant: the option is ignored and the default path always used
OutputGiven_Never(a) == FALSE

\* `if args.output:` is the truth value of the option: None and "" are false
OutputGiven(a) == a.output # None /\ a.output # Some(EmptyPath)

ResolveOutputPath ==
    /\ pc = "resolve_output"
    /\ IF OutputGiven(args)
       THEN /\ output_path' = args.output
            /\ UNCHANGED fs
       ELSE /\ fs' = [fs EXCEPT !.dirs = @ \cup { DEFAULT_OUTPUT_DIR }]
            /\ output_path' = Some(DefaultPathOf(args))
    /\ pc' = "build_output"
    /\ UNCHANGED << args, infile, fs0, http, steps, result, lines, stdout, stderr, exitCode >>

\* ---------------------------------------------------------------- lines 136-142
\* variant: tests the presence of hasRandomization instead of its truth
SummaryLine_KeyPresent(f) ==
    IF f.hasRandomization # None
    THEN <<"* randomization used - divisible by ">> \o IntToStr(Val(f.divisor))
    ELSE <<"* no entries divisible by ">> \o IntToStr(Val(f.divisor))

\* lines 138-141: the summary line of a result object, for the file
SummaryLine(f) ==
    IF f.hasRandomization = Some(TRUE)
    THEN <<"* randomization used - divisible by ">> \o IntToStr(Val(f.divisor))
    ELSE <<"* no entries divisible by ">> \o IntToStr(Val(f.divisor))

\* the exception main() runs into while reading the result, if any
\* (empty when lines 136-142 complete)
BuildFailure(body) ==
    IF body.kind # "object" THEN <<"AttributeError: ", "'list' object has no attribute 'get'">>
    ELSE IF body.f.divisor = None THEN <<"KeyError: ", "'divisor'">>
    ELSE IF body.f.results = None THEN <<"KeyError: ", "'results'">>
    ELSE <<>>

BuildOutput ==
    /\ pc = "build_output"
    /\ IF BuildFailure(Val(result)) # <<>>
       THEN /\ stderr' = Append(stderr, Traceback(BuildFailure(Val(result))))
            /\ Exited(1)
            /\ UNCHANGED lines
       ELSE /\ lines' = Some(<<SummaryLine(Val(result).f)>> \o Val(Val(result).f.results))
            /\ pc' = "write_output"
            /\ UNCHANGED << stderr, exitCode >>
    /\ UNCHANGED << args, infile, fs0, fs, http, steps, result, output_path, stdout >>

\* ---------------------------------------------------------------- lines 144-148
WriteFile(files, path, text) ==
    { x \in files : x.path # path } \cup { [path |-> path, text |-> text] }

WriteOutput ==
    /\ pc = "write_output"
    /\ \E failure \in { "none", "mkdir", "open" } :
        /\ steps' = Append(steps, [name |-> "WRITE", ok |-> failure = "none"])
        /\ fs' = [ dirs |-> IF failure = "mkdir" THEN fs.dirs
                            ELSE fs.dirs \cup { Val(output_path).dir },
                   files |-> IF failure = "none"
                             THEN WriteFile(fs.files, Val(output_path), FileText(Val(lines)))
                             ELSE fs.files ]
        /\ IF failure # "none"
           THEN /\ stderr' = Append(stderr, Traceback(<<"PermissionError: ", "[Errno 13]">>))
                /\ Exited(1)
           ELSE /\ pc' = "print"
                /\ UNCHANGED << stderr, exitCode >>
    /\ UNCHANGED << args, infile, fs0, http, result, output_path, lines, stdout >>

\* ---------------------------------------------------------------- lines 150-163
\* lines 157-160: the summary line, computed again for the console
ConsoleSummaryLine(f) ==
    IF f.hasRandomization = Some(TRUE)
    THEN <<"* randomization used - divisible by ">> \o IntToStr(Val(f.divisor))
    ELSE <<"* no entries divisible by ">> \o IntToStr(Val(f.divisor))

\* lines 151-163: everything printed to standard output
ConsoleLines(f, path) ==
    << <<"Processed ">> \o IntToStr(Len(Val(f.results)))
           \o <<" transactions (", Val(f.currency), ")">>,
       <<"Output: ">> \o PathText(path),
       <<>>,
       <<"--- Results ---">>,
       ConsoleSummaryLine(f) >> \o Val(f.results)

PrintSummary ==
    /\ pc = "print"
    /\ IF Val(result).f.currency = None
       THEN /\ stderr' = Append(stderr, Traceback(<<"KeyError: ", "'currency'">>))
            /\ steps' = Append(steps, [name |-> "PRINT", ok |-> FALSE])
            /\ Exited(1)
            /\ UNCHANGED stdout
       ELSE /\ stdout' = stdout \o ConsoleLines(Val(result).f, Val(output_path))
            /\ steps' = Append(steps, [name |-> "PRINT", ok |-> TRUE])
            /\ Exited(0)
            /\ UNCHANGED stderr
    /\ UNCHANGED << args, infile, fs0, fs, http, result, output_path, lines >>

\* ---------------------------------------------------------------- specification
Next == \/ CheckInputFile
        \/ CheckApi
        \/ ProcessFile
        \/ ResolveOutputPath
        \/ BuildOutput
        \/ WriteOutput
        \/ PrintSummary

Spec == Init /\ [][Next]_vars

TypeOK == /\ pc \in { "check_input", "check_api", "process", "resolve_output",
                      "build_output", "write_output", "print", "done" }
          /\ (exitCode # None) = (pc = "done")


\* ================================================================ properties
Range(q) == { q[i] : i \in DOMAIN q }
Methods(q) == [ i \in DOMAIN q |-> q[i].method ]
StepNames == [ i \in DOMAIN steps |-> steps[i].name ]
IsPrefix(p, q) == Len(p) <= Len(q) /\ \A i \in DOMAIN p : p[i] = q[i]

Gets  == { r \in Range(http) : r.method = "GET" }
Posts == { r \in Range(http) : r.method = "POST" }

\* the health check failed: the GET was answered by a status other than 200
\* or raised a network error
HealthFailed == \E r \in Gets : r.response.raised \/ r.response.status # "200"
HealthOk     == \E r \in Gets : ~r.response.raised /\ r.response.status = "200"
\* the POST came back with status 200 and a body that parsed as JSON
PostOk == \E r \in Posts : /\ ~r.response.raised
                           /\ r.response.status = "200"
                           /\ r.response.body.kind # "not_json"
WriteDone == \E i \in DOMAIN steps : steps[i].name = "WRITE" /\ steps[i].ok
PrintDone == \E i \in DOMAIN steps : steps[i].name = "PRINT" /\ steps[i].ok

\* the text of the output file at path p, as a set (empty when there is none)
TextAt(files, p) == { x.text : x \in { y \in files : y.path = p } }

RECURSIVE SplitAcc(_, _, _)
SplitAcc(text, cur, acc) ==
    IF text = <<>> THEN [lines |-> acc, rest |-> cur]
    ELSE IF Head(text) = NL THEN SplitAcc(Tail(text), <<>>, Append(acc, cur))
    ELSE SplitAcc(Tail(text), Append(cur, Head(text)), acc)
\* the newline-terminated lines of a text, and what follows the last newline
LinesOf(text) == SplitAcc(text, <<>>, <<>>).lines
Unterminated(text) == SplitAcc(text, <<>>, <<>>).rest

\* C1: whenever the health check has failed (status other than 200 or a network
\* error), the process has exited with code 1 and no POST has been issued.
C1_HealthFailureExitsBeforePost ==
    HealthFailed => /\ pc = "done"
                    /\ exitCode = Some(1)
                    /\ Posts = {}

C1_Witness ==
    /\ \E r \in Gets : ~r.response.raised /\ r.response.status = "503"
    /\ pc = "done"
    /\ infile.readable


\* C2: when the input path does not name an existing regular file, the run
\* ends at once with exit code 1, sends nothing to the server and creates no
\* output file or directory, whatever the other options are.
C2_MissingInputExitsWithoutOutput ==
    ~infile.isfile => /\ pc \in { "check_input", "done" }
                      /\ pc = "done" => exitCode = Some(1)
                      /\ http = <<>>
                      /\ fs = fs0

C2_Witness ==
    /\ ~infile.isfile
    /\ pc = "done"
    /\ args.output = Some(CustomPath)
    /\ fs0 = EmptyFs

\* the text the claim expects on stderr for an answer: the body's `error`
\* field, or the generic text when the body has none
ExpectedErrorText(body) ==
    IF body.kind = "object" /\ body.f.error # None THEN Val(body.f.error)
    ELSE "Unknown error"

\* C3: after a successful health check, a POST answered with a status other
\* than 200 ends the run with exit code 1 and a message on stderr that contains
\* the body's `error` field, or "Unknown error" when the body has no such field.
C3_Non200ReportsServerError ==
    \A r \in Posts :
        (HealthOk /\ ~r.response.raised /\ r.response.status # "200")
        => /\ pc = "done"
           /\ exitCode = Some(1)
           /\ \E m \in Range(stderr) :
                 /\ Head(m) = "Error: "
                 /\ ExpectedErrorText(r.response.body) \in Range(m)

SummaryPrefixes == { "* randomization used - divisible by ", "* no entries divisible by " }

\* C4: once the output file is written, its text is one summary line followed
\* by the server's result lines in their order, every line ended by one
\* newline and nothing after the last: n result lines give n+1 lines.
C4_OutputFileLayout ==
    WriteDone =>
        \E t \in TextAt(fs.files, Val(output_path)) :
            /\ Unterminated(t) = <<>>
            /\ Len(LinesOf(t)) = Len(Val(Val(result).f.results)) + 1
            /\ Head(LinesOf(t)[1]) \in SummaryPrefixes
            /\ Tail(LinesOf(t)) = Val(Val(result).f.results)
            /\ Cardinality({ i \in DOMAIN t : t[i] = NL }) = Len(LinesOf(t))

C4_Witness ==
    /\ WriteDone
    /\ exitCode = Some(0)
    /\ Val(Val(result).f.results) = << <<"b">>, <<"a">> >>

\* the summary line the claim expects for a result object
ExpectedSummary(f) ==
    IF f.hasRandomization = Some(TRUE)
    THEN <<"* randomization used - divisible by ">> \o IntToStr(Val(f.divisor))
    ELSE <<"* no entries divisible by ">> \o IntToStr(Val(f.divisor))

\* C5: the summary line names the divisor returned by the server and reads
\* "randomization used" exactly when hasRandomization is true (otherwise, false
\* or absent, "no entries divisible"); the file and the console show the same
\* summary line.
C5_SummaryLine ==
    /\ lines # None => Val(lines)[1] = ExpectedSummary(Val(result).f)
    /\ WriteDone =>
          \A t \in TextAt(fs.files, Val(output_path)) :
              LinesOf(t)[1] = ExpectedSummary(Val(result).f)
    /\ PrintDone =>
          /\ stdout[5] = ExpectedSummary(Val(result).f)
          /\ \A t \in TextAt(fs.files, Val(output_path)) : stdout[5] = LinesOf(t)[1]

C5_Witness ==
    /\ PrintDone
    /\ Val(result).f.hasRandomization = Some(FALSE)
    /\ Val(result).f.divisor = Some(12)
    /\ args.divisor = Some(5)


\* the output files other than the one at path p
FilesExcept(files, p) == { x \in files : x.path # p }

\* what C6 says of an invocation whose --output value is p
UsesOutputVerbatim(p) ==
    /\ output_path # None => output_path = Some(p)
    /\ WriteDone => TextAt(fs.files, p) = { FileText(Val(lines)) }
    /\ FilesExcept(fs.files, p) = FilesExcept(fs0.files, p)
    /\ fs.dirs \subseteq fs0.dirs \cup { p.dir }

\* C6 as stated: whenever --output is given, whatever its value, the result is
\* written to exactly that path and the default directory is left alone.
C6_AsStated ==
    args.output # None => UsesOutputVerbatim(Val(args.output))

\* C6: whenever --output is given with a non-empty value, the result is written
\* to exactly that path, no other output file changes and the default output
\* directory is not created.
C6_OutputOverridesDefault ==
    (args.output # None /\ Val(args.output).name # <<>>)
        => UsesOutputVerbatim(Val(args.output))

C6_Witness ==
    /\ args.output = Some(CustomPath)
    /\ WriteDone
    /\ fs0 = EmptyFs
    /\ DefaultPathOf(args).dir \notin fs.dirs

\* C7: the steps are taken in the order GET, POST, write, console, each at most
\* once, and a step is taken only after every earlier one succeeded.
C7_StepsInOrder ==
    /\ IsPrefix(StepNames, <<"GET", "POST", "WRITE", "PRINT">>)
    /\ IsPrefix(Methods(http), <<"GET", "POST">>)
    /\ Posts # {} => HealthOk
    /\ (\E i \in DOMAIN steps : steps[i].name = "WRITE") => PostOk
    /\ (\E i \in DOMAIN steps : steps[i].name = "PRINT") => WriteDone
    /\ fs.files # fs0.files => WriteDone
    /\ stdout # <<>> => PrintDone
    /\ Len(http) = Cardinality({ i \in DOMAIN steps : steps[i].name \in { "GET", "POST" } })

C7_Witness ==
    /\ StepNames = <<"GET", "POST", "WRITE", "PRINT">>
    /\ exitCode = Some(0)

\* C8: every failed run ends with exit code 1 after a message with the
\* "Error: " prefix was printed to stderr by the top level, and nothing else
\* reaches stderr; the exit code is 0 only when the file was written and the
\* summary printed.
C8_FailuresHandledAtTopLevel ==
    pc = "done" =>
        /\ exitCode \in { Some(0), Some(1) }
        /\ exitCode = Some(1) => /\ stderr # <<>>
                                 /\ \A m \in Range(stderr) : Head(m) = "Error: "
        /\ exitCode = Some(0) => WriteDone /\ PrintDone

\* C9: the POST carries `divisor` exactly when --divisor was set (0 and
\* negative values included), noPennies=true and halfDollars=true exactly when
\* their flags were given, no other parameter, and the input text as its body.
C9_QueryParameters ==
    \A r \in Posts :
        /\ { q[1] : q \in r.params } \subseteq { "divisor", "noPennies", "halfDollars" }
        /\ Cardinality(r.params) = Cardinality({ q[1] : q \in r.params })
        /\ (\E q \in r.params : q[1] = "divisor") <=> (args.divisor # None)
        /\ \A q \in r.params : q[1] = "divisor" => q[2] = IntToStr(Val(args.divisor))
        /\ (<<"noPennies", <<"true">>>> \in r.params) <=> args.no_pennies
        /\ (<<"halfDollars", <<"true">>>> \in r.params) <=> args.half_dollars
        /\ \A q \in r.params : q[1] \in { "noPennies", "halfDollars" } => q[2] = <<"true">>
        /\ r.body = infile.content

C9_Witness ==
    \E r \in Posts : /\ args.divisor = Some(0)
                     /\ args.no_pennies
                     /\ ~args.half_dollars
                     /\ r.params = { <<"divisor", <<"0">>>>, <<"noPennies", <<"true">>>> }

\* C10: the output directory and file change only after the POST returned 200
\* with a parsed body; a run that ends because of a missing input file, a
\* failed health check or a failed request leaves them as they were.
C10_OutputUntouchedBeforeSuccess ==
    /\ fs # fs0 => PostOk
    /\ (pc = "done" /\ (~infile.isfile \/ HealthFailed \/ ~PostOk))
           => exitCode = Some(1) /\ fs = fs0

C10_Witness ==
    /\ pc = "done"
    /\ \E r \in Posts : ~r.response.raised /\ r.response.status = "500"
    /\ fs0 # EmptyFs
    /\ fs = fs0

====
